---- MODULE Spec2Model ----
(***************************************************************************)
(* Model of the calendar-photo component (CalendarPhotoConverter) and of   *)
(* its ICS encoder: formatDateToICS, generateICS, downloadICS,             *)
(* handleImageUpload and processImage; of the photo-to-ICS component       *)
(* (PhotoToICSGenerator, Photo.jsx) and of the course-recommendation       *)
(* component (App, App.tsx).  One of the three is mounted; loading, error  *)
(* and the sets of pending file readers and requests are state of          *)
(* whichever it is.                                                        *)
(*                                                                         *)
(* Text is a sequence of tokens.  A token is a one-character string where  *)
(* the code works on characters (date strings, digits) and a whole word    *)
(* where the code only copies it (a title, a keyword such as               *)
(* "BEGIN:VEVENT").  The line break is the token "\n".                     *)
(***************************************************************************)
EXTENDS Integers, Sequences, FiniteSets, TLC

VARIABLES image, events, loading, error, readers, inflight, uploads,
          now, tz, out, clicks, files, uncaught,
          mounted,
          file, success, icsData, dragActive, gens, apiKey,
          step, profile, recommendations, isAnalyzing, alerts, storage,
          submits, edits

\* State of PhotoToICSGenerator that CalendarPhotoConverter does not have
\* (loading and error are state of both).
photoVars == <<file, success, icsData, dragActive, gens, apiKey>>

\* State of the course-recommendation component App.
appVars == <<step, profile, recommendations, isAnalyzing, alerts, storage,
             submits, edits>>

\* State and environment of CalendarPhotoConverter alone.
converterVars == <<image, events, now, tz, out, uncaught>>

\* What no handler of CalendarPhotoConverter touches.
otherVars == <<mounted, photoVars, appVars>>

vars == <<image, events, loading, error, readers, inflight, uploads,
          now, tz, out, clicks, files, uncaught, otherVars>>

(***************************************************************************)
(* Bounds of the model.                                                    *)
(***************************************************************************)
MaxEvents == 2
MaxClock == 2
MaxUploads == 2
MaxClicks == 2
MaxGens == 2
MaxSubmits == 2
MaxEdits == 2

(***************************************************************************)
(* Text helpers.                                                           *)
(***************************************************************************)
NL == "\n"

DigitChars == <<"0", "1", "2", "3", "4", "5", "6", "7", "8", "9">>

DigitSet == {DigitChars[i] : i \in 1..10}

IsDigit(c) == c \in DigitSet

DigitVal(c) == (CHOOSE i \in 1..10 : DigitChars[i] = c) - 1

RECURSIVE Pad(_, _)
\* Decimal digits of n >= 0, zero-padded on the left to at least w digits.
Pad(n, w) ==
  IF n < 10 /\ w <= 1 THEN <<DigitChars[n + 1]>>
  ELSE Pad(n \div 10, w - 1) \o <<DigitChars[(n % 10) + 1]>>

RECURSIVE ParseNat(_)
\* Value of a sequence of digit characters.
ParseNat(s) ==
  IF Len(s) = 0 THEN 0
  ELSE ParseNat(SubSeq(s, 1, Len(s) - 1)) * 10 + DigitVal(s[Len(s)])

RECURSIVE RemoveAll(_, _)
\* String.prototype.replace(/[..]/g, ""): drop every character of the class.
RemoveAll(s, class) ==
  IF Len(s) = 0 THEN <<>>
  ELSE IF s[1] \in class THEN RemoveAll(Tail(s), class)
  ELSE <<s[1]>> \o RemoveAll(Tail(s), class)

RECURSIVE SplitFirst(_, _)
\* String.prototype.split(sep)[0]: the text before the first separator.
SplitFirst(s, sep) ==
  IF Len(s) = 0 \/ s[1] = sep THEN <<>>
  ELSE <<s[1]>> \o SplitFirst(Tail(s), sep)

RECURSIVE Flatten(_)
\* Concatenation of a sequence of texts.
Flatten(ss) ==
  IF Len(ss) = 0 THEN <<>> ELSE ss[1] \o Flatten(Tail(ss))

RECURSIVE SplitLines(_)
\* The lines of a text: the maximal runs of tokens between line breaks.
SplitLines(s) ==
  LET first == SplitFirst(s, NL)
  IN IF Len(first) = Len(s) THEN <<first>>
     ELSE <<first>> \o SplitLines(SubSeq(s, Len(first) + 2, Len(s)))

\* A thrown exception and a returned value.
Throw(name) == [ok |-> FALSE, v |-> <<name>>]

Ok(v) == [ok |-> TRUE, v |-> v]

(***************************************************************************)
(* ECMAScript Date.  A time value is a day number since 1970-01-01 and the *)
(* milliseconds within that day (the product does not fit a machine        *)
(* integer of TLC), or NaN.                                                *)
(***************************************************************************)
MsPerDay == 86400000

NaN == [nan |-> TRUE, day |-> 0, ms |-> 0]

TimeValue(day, ms) ==
  [nan |-> FALSE, day |-> day + (ms \div MsPerDay), ms |-> ms % MsPerDay]

\* TimeClip: NaN beyond 8.64e15 ms (100,000,000 days) from the epoch.
TimeClip(t) ==
  IF t.nan THEN NaN
  ELSE IF t.day < -100000000 \/ t.day > 100000000 THEN NaN
  ELSE IF t.day = 100000000 /\ t.ms > 0 THEN NaN
  ELSE t

IsLeap(y) == (y % 4 = 0 /\ y % 100 # 0) \/ y % 400 = 0

DaysInMonth(y, m) ==
  IF m = 2 THEN (IF IsLeap(y) THEN 29 ELSE 28)
  ELSE IF m \in {4, 6, 9, 11} THEN 30 ELSE 31

\* Day number of March 1 of year yy (counted from March) plus doy days.
DayFromMarch(yy, doy) ==
  (yy \div 400) * 146097 + (yy % 400) * 365 + ((yy % 400) \div 4)
    - ((yy % 400) \div 100) + doy - 719468

\* MakeDay: the day number of a civil date (proleptic Gregorian).
MakeDay(y, m, d) ==
  DayFromMarch(IF m <= 2 THEN y - 1 ELSE y,
               ((153 * (IF m > 2 THEN m - 3 ELSE m + 9) + 2) \div 5) + d - 1)

YearOfEra(doe) ==
  (doe - (doe \div 1460) + (doe \div 36524) - (doe \div 146096)) \div 365

CivilFromMp(y0, doy, mp) ==
  [y |-> y0 + (IF mp >= 10 THEN 1 ELSE 0),
   m |-> IF mp < 10 THEN mp + 3 ELSE mp - 9,
   d |-> doy - ((153 * mp + 2) \div 5) + 1]

CivilFromDoy(y0, doy) == CivilFromMp(y0, doy, (5 * doy + 2) \div 153)

CivilFromYoe(era, doe, yoe) ==
  CivilFromDoy(era * 400 + yoe,
               doe - (365 * yoe + (yoe \div 4) - (yoe \div 100)))

\* YearFromTime, MonthFromTime, DateFromTime of a day number.
CivilFromDay(day) ==
  CivilFromYoe((day + 719468) \div 146097, (day + 719468) % 146097,
               YearOfEra((day + 719468) % 146097))

\* Whether text s has the shape pat: "d" stands for a digit, "s" for a sign.
Matches(s, pat) ==
  /\ Len(s) = Len(pat)
  /\ \A i \in 1..Len(pat) :
       IF pat[i] = "d" THEN IsDigit(s[i])
       ELSE IF pat[i] = "s" THEN s[i] \in {"+", "-"}
       ELSE s[i] = pat[i]

YearPat4 == <<"d", "d", "d", "d">>

YearPat6 == <<"s", "d", "d", "d", "d", "d", "d">>

DayPat == <<"-", "d", "d", "-", "d", "d">>

TimePat == <<"T", "d", "d", ":", "d", "d", ":", "d", "d">>

FracPat == <<".", "d", "d", "d">>

DatePat(ylen) == (IF ylen = 7 THEN YearPat6 ELSE YearPat4) \o DayPat

\* form: 0 = no match, 1 = date only, 2 = local date-time, 3 = UTC date-time.
ShapeOf(s, ylen) ==
  [form |-> IF Matches(s, DatePat(ylen)) THEN 1
            ELSE IF Matches(s, DatePat(ylen) \o TimePat) THEN 2
            ELSE IF Matches(s, DatePat(ylen) \o TimePat \o FracPat) THEN 2
            ELSE IF Matches(s, DatePat(ylen) \o TimePat \o <<"Z">>) THEN 3
            ELSE IF Matches(s, DatePat(ylen) \o TimePat \o FracPat \o <<"Z">>) THEN 3
            ELSE 0,
   ylen |-> ylen,
   time |-> Len(s) >= ylen + 15,
   frac |-> Len(s) >= ylen + 19]

\* The date-time string format of ECMAScript: a year of 4 digits or a signed
\* year of 6, a date, and optionally a time with seconds, milliseconds and Z.
DateShape(s) ==
  ShapeOf(s, IF Len(s) > 0 /\ s[1] \in {"+", "-"} THEN 7 ELSE 4)

\* The numeric fields of a string of shape sh; yl is the year's length.
DateFields(s, sh, yl) ==
  [y |-> IF yl = 7
         THEN (IF s[1] = "-" THEN 0 - ParseNat(SubSeq(s, 2, 7))
               ELSE ParseNat(SubSeq(s, 2, 7)))
         ELSE ParseNat(SubSeq(s, 1, 4)),
   minusZero |-> yl = 7 /\ s[1] = "-" /\ SubSeq(s, 2, 7) = Pad(0, 6),
   m |-> ParseNat(SubSeq(s, yl + 2, yl + 3)),
   d |-> ParseNat(SubSeq(s, yl + 5, yl + 6)),
   h |-> IF sh.time THEN ParseNat(SubSeq(s, yl + 8, yl + 9)) ELSE 0,
   mi |-> IF sh.time THEN ParseNat(SubSeq(s, yl + 11, yl + 12)) ELSE 0,
   sec |-> IF sh.time THEN ParseNat(SubSeq(s, yl + 14, yl + 15)) ELSE 0,
   ms |-> IF sh.frac THEN ParseNat(SubSeq(s, yl + 17, yl + 19)) ELSE 0]

\* The time value of the fields f, taken as local time (offset minutes east
\* of UTC) or as UTC; NaN when a field is out of range.
TimeOfFields(f, offset, local) ==
  IF f.minusZero THEN NaN
  ELSE IF f.m < 1 \/ f.m > 12 \/ f.d < 1 \/ f.d > DaysInMonth(f.y, f.m) THEN NaN
  ELSE IF f.mi > 59 \/ f.sec > 59 THEN NaN
  ELSE IF f.h > 24 \/ (f.h = 24 /\ (f.mi # 0 \/ f.sec # 0 \/ f.ms # 0)) THEN NaN
  ELSE TimeClip(TimeValue(MakeDay(f.y, f.m, f.d),
                          ((f.h * 60 + f.mi) * 60 + f.sec) * 1000 + f.ms
                            - (IF local THEN offset * 60000 ELSE 0)))

ParseShape(s, offset, sh) ==
  IF sh.form = 0 THEN NaN
  ELSE TimeOfFields(DateFields(s, sh, sh.ylen), offset, sh.form = 2)

\* new Date(dateStr): the time value of a date-time string.  A string with
\* a time and no Z is local time; a date alone is UTC.  offset is the local
\* zone's offset from UTC in minutes (UTC+1 is 60).  Every other string is
\* an Invalid Date.
DateParse(s, offset) == ParseShape(s, offset, DateShape(s))

YearText(y) ==
  IF y >= 0 /\ y <= 9999 THEN Pad(y, 4)
  ELSE IF y > 9999 THEN <<"+">> \o Pad(y, 6)
  ELSE <<"-">> \o Pad(0 - y, 6)

IsoText(c, secs, ms) ==
  YearText(c.y) \o <<"-">> \o Pad(c.m, 2) \o <<"-">> \o Pad(c.d, 2) \o <<"T">>
    \o Pad(secs \div 3600, 2) \o <<":">> \o Pad((secs \div 60) % 60, 2)
    \o <<":">> \o Pad(secs % 60, 2) \o <<".">> \o Pad(ms, 3) \o <<"Z">>

\* Date.prototype.toISOString: YYYY-MM-DDTHH:mm:ss.sssZ, the year with a sign
\* and six digits outside 0..9999; a RangeError for an Invalid Date.
toISOString(t) ==
  IF t.nan THEN Throw("RangeError: Invalid time value")
  ELSE Ok(IsoText(CivilFromDay(t.day), t.ms \div 1000, t.ms % 1000))

\* String(Date.now()): the decimal digits of the milliseconds since the epoch
\* (seconds and milliseconds are rendered apart: their product overflows).
EpochMsText(t) ==
  IF t.day * 86400 + (t.ms \div 1000) = 0 THEN Pad(t.ms % 1000, 1)
  ELSE Pad(t.day * 86400 + (t.ms \div 1000), 1) \o Pad(t.ms % 1000, 3)

(***************************************************************************)
(* CalendarEvent.  An optional field is <<>> when absent and <<text>> when *)
(* present (the text may be empty).                                        *)
(***************************************************************************)
None == <<>>

Some(text) == <<text>>

\* JavaScript truthiness of an optional string: present and not "".
Truthy(opt) == Len(opt) = 1 /\ Len(opt[1]) > 0

CalendarEvent(title, start, end, location, description) ==
  [title |-> title, start |-> start, end |-> end,
   location |-> location, description |-> description]

(***************************************************************************)
(* The encoder.                                                            *)
(***************************************************************************)
\* .replace(/[-:]/g, "").split(".")[0] + "Z" on the ISO string, or the
\* exception toISOString threw.
BasicFormat(iso) ==
  IF ~iso.ok THEN iso
  ELSE Ok(SplitFirst(RemoveAll(iso.v, {"-", ":"}), ".") \o <<"Z">>)

\* formatDateToICS(dateStr): new Date(dateStr).toISOString() with "-" and ":"
\* removed, cut at the first "." and followed by "Z".
formatDateToICS(dateStr, offset) ==
  BasicFormat(toISOString(DateParse(dateStr, offset)))

Header ==
  <<"BEGIN:VCALENDAR", NL, "VERSION:2.0", NL,
    "PRODID:-//Calendar Photo Converter//EN", NL>>

TrailerWithBreak == <<"END:VCALENDAR", NL>>

\* The last append: END:VCALENDAR, without a line break.
Trailer == <<"END:VCALENDAR">>

UidAppendNoIndex(tNow, index) ==
  <<"UID:">> \o EpochMsText(tNow) \o <<"@calendar-converter", NL>>

\* The UID line: UID:${Date.now()}-${index}@calendar-converter
UidAppend(tNow, index) ==
  <<"UID:">> \o EpochMsText(tNow) \o <<"-">> \o Pad(index, 1)
    \o <<"@calendar-converter", NL>>

OptionalAppendsNested(event) ==
  IF Truthy(event.location)
  THEN <<<<"LOCATION:">> \o event.location[1] \o <<NL>>>>
       \o (IF Truthy(event.description)
           THEN <<<<"DESCRIPTION:">> \o event.description[1] \o <<NL>>>>
           ELSE <<>>)
  ELSE <<>>

\* The appends made for the optional fields of one event.
OptionalAppends(event) ==
  (IF Truthy(event.location)
   THEN <<<<"LOCATION:">> \o event.location[1] \o <<NL>>>> ELSE <<>>)
  \o (IF Truthy(event.description)
      THEN <<<<"DESCRIPTION:">> \o event.description[1] \o <<NL>>>> ELSE <<>>)

\* TEXT escaping of RFC 5545 for the comma, which the code does not apply.
EscapeText(text) ==
  Flatten([k \in 1..Len(text) |->
             IF text[k] = "," THEN <<"\\", ",">> ELSE <<text[k]>>])

AppendsOfEscaping(event, index, tNow, dtstamp, dtstart, dtend) ==
  IF ~dtstamp.ok THEN dtstamp
  ELSE IF ~dtstart.ok THEN dtstart
  ELSE IF ~dtend.ok THEN dtend
  ELSE Ok(<< <<"BEGIN:VEVENT", NL>>,
             UidAppend(tNow, index),
             <<"DTSTAMP:">> \o dtstamp.v \o <<NL>>,
             <<"DTSTART:">> \o dtstart.v \o <<NL>>,
             <<"DTEND:">> \o dtend.v \o <<NL>>,
             <<"SUMMARY:">> \o EscapeText(event.title) \o <<NL>> >>
          \o OptionalAppends(event)
          \o << <<"END:VEVENT", NL>> >>)

\* The strings one run of the forEach callback appends to icsContent, in
\* order, or the first exception a date conversion throws.
AppendsOf(event, index, tNow, dtstamp, dtstart, dtend) ==
  IF ~dtstamp.ok THEN dtstamp
  ELSE IF ~dtstart.ok THEN dtstart
  ELSE IF ~dtend.ok THEN dtend
  ELSE Ok(<< <<"BEGIN:VEVENT", NL>>,
             UidAppend(tNow, index),
             <<"DTSTAMP:">> \o dtstamp.v \o <<NL>>,
             <<"DTSTART:">> \o dtstart.v \o <<NL>>,
             <<"DTEND:">> \o dtend.v \o <<NL>>,
             <<"SUMMARY:">> \o event.title \o <<NL>> >>
          \o OptionalAppends(event)
          \o << <<"END:VEVENT", NL>> >>)

\* The forEach callback for one event.  tNow is what Date.now() reads and
\* tDate what new Date() reads.
EventAppends(event, index, tNow, tDate, offset) ==
  AppendsOf(event, index, tNow,
            formatDateToICS(toISOString(tDate).v, offset),
            formatDateToICS(event.start, offset),
            formatDateToICS(event.end, offset))

PrependSkipping(one, rest) ==
  IF ~rest.ok THEN rest
  ELSE IF ~one.ok THEN rest
  ELSE Ok(<<one.v>> \o rest.v)

\* The appends of one event followed by those of the later events; an
\* exception ends the loop.
Prepend(one, rest) ==
  IF ~one.ok THEN one
  ELSE IF ~rest.ok THEN rest
  ELSE Ok(<<one.v>> \o rest.v)

RECURSIVE forEachFrom(_, _, _, _)
\* events.forEach from position i on: the appends of each event (a sequence
\* per event), or the first exception thrown.  reads[2i-1] and reads[2i] are
\* the two clock readings taken for the event at position i.
forEachFrom(evs, i, reads, offset) ==
  IF i > Len(evs) THEN Ok(<<>>)
  ELSE Prepend(EventAppends(evs[i], i - 1, reads[2 * i - 1], reads[2 * i], offset),
               forEachFrom(evs, i + 1, reads, offset))

forEachOffByOne(evs, reads, offset) ==
  IF Len(evs) = 0 THEN Throw("TypeError: Cannot read properties of undefined")
  ELSE forEachFrom(evs, 1, reads, offset)

forEach(evs, reads, offset) == forEachFrom(evs, 1, reads, offset)

\* icsContent once the loop is over: header, appends, trailer.
Document(body) ==
  IF ~body.ok THEN [ok |-> FALSE, v |-> body.v, blocks |-> <<>>]
  ELSE [ok |-> TRUE,
        v |-> Header \o Flatten([i \in 1..Len(body.v) |-> Flatten(body.v[i])])
                \o Trailer,
        blocks |-> body.v]

\* generateICS(): the document (v) or the exception; blocks records, per
\* event, the strings the callback appended.
generateICS(evs, reads, offset) == Document(forEach(evs, reads, offset))

(***************************************************************************)
(* Inputs: the date strings, events and event lists the model draws from.  *)
(***************************************************************************)
\* "2025-03-10T09:00:00"
D_Mar10_0900 ==
  <<"2", "0", "2", "5", "-", "0", "3", "-", "1", "0",
    "T", "0", "9", ":", "0", "0", ":", "0", "0">>

\* "2025-03-10T10:30:00"
D_Mar10_1030 ==
  <<"2", "0", "2", "5", "-", "0", "3", "-", "1", "0",
    "T", "1", "0", ":", "3", "0", ":", "0", "0">>

\* "2025-01-01T00:30:00"
D_Jan01_0030 ==
  <<"2", "0", "2", "5", "-", "0", "1", "-", "0", "1",
    "T", "0", "0", ":", "3", "0", ":", "0", "0">>

\* "2024-12-31T23:30:00"
D_Dec31_2330 ==
  <<"2", "0", "2", "4", "-", "1", "2", "-", "3", "1",
    "T", "2", "3", ":", "3", "0", ":", "0", "0">>

\* "2024-02-29T23:30:00"
D_Feb29_2330 ==
  <<"2", "0", "2", "4", "-", "0", "2", "-", "2", "9",
    "T", "2", "3", ":", "3", "0", ":", "0", "0">>

\* "2024-03-01T00:15:00"
D_Mar01_0015 ==
  <<"2", "0", "2", "4", "-", "0", "3", "-", "0", "1",
    "T", "0", "0", ":", "1", "5", ":", "0", "0">>

\* "9999-12-31T23:30:00"
D_9999_2330 ==
  <<"9", "9", "9", "9", "-", "1", "2", "-", "3", "1",
    "T", "2", "3", ":", "3", "0", ":", "0", "0">>

\* "+010000-01-01T00:00:00"
D_10000_0000 ==
  <<"+", "0", "1", "0", "0", "0", "0", "-", "0", "1", "-", "0", "1",
    "T", "0", "0", ":", "0", "0", ":", "0", "0">>

\* Date-time strings without offset, each with the civil fields it names.
DateCases ==
  { [str |-> D_Mar10_0900, y |-> 2025, m |-> 3, d |-> 10, h |-> 9, mi |-> 0, s |-> 0],
    [str |-> D_Mar10_1030, y |-> 2025, m |-> 3, d |-> 10, h |-> 10, mi |-> 30, s |-> 0],
    [str |-> D_Jan01_0030, y |-> 2025, m |-> 1, d |-> 1, h |-> 0, mi |-> 30, s |-> 0],
    [str |-> D_Dec31_2330, y |-> 2024, m |-> 12, d |-> 31, h |-> 23, mi |-> 30, s |-> 0],
    [str |-> D_Feb29_2330, y |-> 2024, m |-> 2, d |-> 29, h |-> 23, mi |-> 30, s |-> 0],
    [str |-> D_Mar01_0015, y |-> 2024, m |-> 3, d |-> 1, h |-> 0, mi |-> 15, s |-> 0],
    [str |-> D_9999_2330, y |-> 9999, m |-> 12, d |-> 31, h |-> 23, mi |-> 30, s |-> 0],
    [str |-> D_10000_0000, y |-> 10000, m |-> 1, d |-> 1, h |-> 0, mi |-> 0, s |-> 0] }

EvMidterm ==
  CalendarEvent(<<"Midterm">>, D_Mar10_0900, D_Mar10_1030, None, None)

\* A title and a description with line breaks; the end precedes the start.
EvParty ==
  CalendarEvent(<<"Party", NL, "BEGIN:VEVENT">>, D_Jan01_0030, D_Dec31_2330,
                Some(<<>>), Some(<<"Bring", NL, "END:VEVENT">>))

EvLunch ==
  CalendarEvent(<<"Lunch", ",", " then class">>, D_Feb29_2330, D_Mar01_0015,
                Some(<<"Room 1">>), None)

EvBadStart ==
  CalendarEvent(<<"Quiz">>, <<"not a date">>, D_Mar10_1030,
                None, Some(<<"Chapter 3">>))

EvBadEnd ==
  CalendarEvent(<<"Lab">>, D_Mar10_0900, <<>>, Some(<<"Room 2">>), Some(<<>>))

EvFar ==
  CalendarEvent(<<"Reunion">>, D_9999_2330, D_10000_0000,
                Some(<<"Hall">>), Some(<<"See you">>))

EventPool == {EvMidterm, EvParty, EvLunch, EvBadStart, EvFar}

SeqsUpTo(S, n) == UNION {[1..k -> S] : k \in 0..n}

EventLists == SeqsUpTo(EventPool, MaxEvents)

\* Local zones: UTC-1, UTC and UTC+5:30, in minutes east of UTC.
Zones == {-60, 0, 330}

(***************************************************************************)
(* The clock.  It starts at 2024-12-31T23:59:59.500Z and moves in steps of *)
(* half a second, so that a step changes the millisecond count and every   *)
(* other step changes the second (the first one the day and the year too). *)
(***************************************************************************)
ClockStart == TimeValue(MakeDay(2024, 12, 31), 86399500)

\* One step of the clock: 500 ms.
Advance(t) == TimeValue(t.day, t.ms + 500)

\* The steps the clock has made since ClockStart.
Elapsed(t) == ((t.day - ClockStart.day) * MsPerDay + t.ms - ClockStart.ms) \div 500

\* The clock readings of one generateICS run over n events that starts at
\* time start: two per event.  The clock stands still (at = 0) or advances
\* one step between two readings, just before reading number at.
ClockReads(n, start, at) ==
  [k \in 1..(2 * n) |-> IF at > 0 /\ k >= at THEN Advance(start) ELSE start]

NoCall ==
  [called |-> FALSE, events |-> <<>>, start |-> ClockStart, at |-> 0,
   res |-> [ok |-> FALSE, v |-> <<>>, blocks |-> <<>>]]

\* A call of generateICS() at the current clock: out records the call and
\* what it returned or threw.
CallOf(at) ==
  [called |-> TRUE, events |-> events, start |-> now, at |-> at,
   res |-> generateICS(events, ClockReads(Len(events), now, at), tz)]

(***************************************************************************)
(* JSON values, and the state of a component that is not the one mounted.  *)
(***************************************************************************)
JsonNull == [type |-> "null", items |-> <<>>]

JsonObject == [type |-> "object", items |-> <<>>]

JsonArray(items) == [type |-> "array", items |-> items]

\* The six text fields of StudentProfile, all empty.
EmptyProfile ==
  [major |-> "", year |-> "", gpa |-> "", completedCourses |-> "",
   careerGoals |-> "", interests |-> ""]

\* useState initial values of PhotoToICSGenerator; no file chosen yet.
PhotoInitial ==
  /\ file = 0
  /\ success = ""
  /\ icsData = ""
  /\ dragActive = FALSE
  /\ gens = 0

\* useState initial values of App; nothing submitted or edited yet.
AppInitial ==
  /\ step = "welcome"
  /\ recommendations = JsonNull
  /\ isAnalyzing = FALSE
  /\ alerts = 0
  /\ submits = 0
  /\ edits = 0

\* The page shows CalendarPhotoConverter; the other two components are not
\* mounted and stay in their initial state.
ConverterMounted ==
  /\ mounted = "converter"
  /\ PhotoInitial /\ apiKey = TRUE
  /\ AppInitial /\ profile = EmptyProfile /\ storage = <<>>

(***************************************************************************)
(* The encoder alone: generateICS applied to every event list.             *)
(***************************************************************************)
InitEnc ==
  /\ events \in EventLists
  /\ image = IF events = <<>> THEN 0 ELSE 1
  /\ uploads = IF events = <<>> THEN 0 ELSE 1
  /\ loading = FALSE
  /\ error = ""
  /\ readers = {}
  /\ inflight = {}
  /\ now = ClockStart
  /\ tz \in Zones
  /\ out = NoCall
  /\ clicks = 0
  /\ files = 0
  /\ uncaught = 0
  /\ ConverterMounted

\* Time passes between two handlers.
Tick ==
  /\ Elapsed(now) < MaxClock
  /\ now' = Advance(now)
  /\ UNCHANGED <<image, events, loading, error, readers, inflight, uploads,
                 tz, out, clicks, files, uncaught>>
  /\ UNCHANGED otherVars

\* generateICS() is called; the clock may advance while it runs.
CallGenerateICS ==
  \E at \in {0} \cup 2..(2 * Len(events)) :
    /\ at > 0 => Elapsed(now) < MaxClock
    /\ out' = CallOf(at)
    /\ now' = IF at > 0 THEN Advance(now) ELSE now
    /\ UNCHANGED <<image, events, loading, error, readers, inflight, uploads,
                   tz, clicks, files, uncaught>>
    /\ UNCHANGED otherVars

NextEnc == Tick \/ CallGenerateICS

SpecEnc == InitEnc /\ [][NextEnc]_vars

(***************************************************************************)
(* The component.  A response text is a sequence of tokens [t, j]: a code  *)
(* fence ("fence-json", "fence"), white space, prose, or a JSON value j.  *)
(***************************************************************************)
Tok(t) == [t |-> t, j |-> JsonNull]

JsonTok(j) == [t |-> "json", j |-> j]

\* .replace(/(fence)json|(fence)/g, ""), a fence being three backquotes
StripFences(text) ==
  SelectSeq(text, LAMBDA tok : tok.t \notin {"fence-json", "fence"})

\* The white space tokens: blank and line break.
WhiteSpace == {" ", NL}

RECURSIVE TrimStart(_)
TrimStart(text) ==
  IF Len(text) > 0 /\ text[1].t \in WhiteSpace THEN TrimStart(Tail(text)) ELSE text

RECURSIVE TrimEnd(_)
TrimEnd(text) ==
  IF Len(text) > 0 /\ text[Len(text)].t \in WhiteSpace
  THEN TrimEnd(SubSeq(text, 1, Len(text) - 1)) ELSE text

\* String.prototype.trim
Trim(text) == TrimEnd(TrimStart(text))

\* JSON.parse: the value of a text that is one JSON value, else a SyntaxError.
JSONparse(text) ==
  IF Len(text) = 1 /\ text[1].t = "json" THEN Ok(text[1].j)
  ELSE Throw("SyntaxError")

\* The text items of data.content, joined.
TextContent(content) ==
  Flatten([i \in 1..Len(content) |->
             IF content[i].type = "text" THEN content[i].text ELSE <<>>])

ErrNoEvents == "No events found in the image. Please try a clearer photo."

ErrFailed ==
  "Failed to process the image. Please ensure it contains a visible calendar and try again."

\* What the try block of processImage leaves in events and error once the
\* request has settled with resp.
AfterParse(parsed) ==
  IF ~parsed.ok THEN [events |-> events, error |-> ErrFailed]
  ELSE IF parsed.v.type = "array" /\ Len(parsed.v.items) > 0
  THEN [events |-> parsed.v.items, error |-> error]
  ELSE [events |-> events, error |-> ErrNoEvents]

SettledSwallowing(resp) ==
  IF resp.kind = "reject" THEN [events |-> events, error |-> error]
  ELSE IF Len(resp.content) = 0 THEN [events |-> events, error |-> ErrFailed]
  ELSE AfterParse(JSONparse(Trim(StripFences(TextContent(resp.content)))))

Settled(resp) ==
  IF resp.kind = "reject" THEN [events |-> events, error |-> ErrFailed]
  ELSE IF Len(resp.content) = 0 THEN [events |-> events, error |-> ErrFailed]
  ELSE AfterParse(JSONparse(Trim(StripFences(TextContent(resp.content)))))

\* The event lists a response can carry to the component: the empty one,
\* lists of parseable events (one with its end before its start), and lists
\* with an unparseable start or end, before or after a parseable event.
ResponseLists ==
  {<<>>, <<EvMidterm>>, <<EvParty>>, <<EvBadStart, EvMidterm>>,
   <<EvMidterm, EvBadStart>>, <<EvParty, EvBadEnd>>}

\* The lists that also arrive inside code fences and after prose.
WrappedLists == {<<EvMidterm>>, <<EvMidterm, EvBadStart>>}

TextPart(text) == [type |-> "text", text |-> text]

Content(parts) == [kind |-> "content", content |-> parts]

\* The event list l as the model answers with it: the JSON array alone, the
\* array inside json fences (in two text items), the array after a sentence.
Bare(l) == Content(<<TextPart(<<JsonTok(JsonArray(l))>>)>>)

Fenced(l) ==
  Content(<<TextPart(<<Tok("fence-json"), Tok(" ")>>),
            TextPart(<<JsonTok(JsonArray(l)), Tok(" "), Tok("fence")>>)>>)

AfterProse(l) ==
  Content(<<TextPart(<<Tok("prose"), Tok(" "), JsonTok(JsonArray(l))>>)>>)

\* The ways the request settles: the fetch or the body's JSON fails, the
\* body has no content, or it has content whose text is a JSON value alone,
\* inside fences, after prose, or no JSON at all.
Responses ==
  {[kind |-> "reject", content |-> <<>>], Content(<<>>),
   Content(<<[type |-> "tool_use", text |-> <<>>]>>),
   Content(<<TextPart(<<Tok("prose")>>)>>),
   Content(<<TextPart(<<JsonTok(JsonNull)>>)>>),
   Content(<<TextPart(<<JsonTok(JsonObject)>>)>>)}
  \cup {Bare(l) : l \in ResponseLists}
  \cup {Fenced(l) : l \in WrappedLists}
  \cup {AfterProse(l) : l \in WrappedLists}

Init ==
  /\ image = 0
  /\ events = <<>>
  /\ loading = FALSE
  /\ error = ""
  /\ readers = {}
  /\ inflight = {}
  /\ uploads = 0
  /\ now = ClockStart
  /\ tz \in Zones
  /\ out = NoCall
  /\ clicks = 0
  /\ files = 0
  /\ uncaught = 0
  /\ ConverterMounted

\* handleImageUpload: the input's change event, with or without a file.
handleImageUpload ==
  \E hasFile \in BOOLEAN :
    /\ uploads < MaxUploads
    /\ IF hasFile
       THEN /\ error' = ""
            /\ events' = <<>>
            /\ uploads' = uploads + 1
            /\ readers' = readers \cup {uploads + 1}
       ELSE UNCHANGED <<error, events, uploads, readers>>
    /\ UNCHANGED <<image, loading, inflight, now, tz, out, clicks, files, uncaught>>
    /\ UNCHANGED otherVars

\* reader.onload: the preview is set and processImage runs up to its fetch.
readerOnload ==
  \E id \in readers :
    /\ readers' = readers \ {id}
    /\ image' = id
    /\ loading' = TRUE
    /\ error' = ""
    /\ inflight' = inflight \cup {id}
    /\ UNCHANGED <<events, uploads, now, tz, out, clicks, files, uncaught>>
    /\ UNCHANGED otherVars

\* The file cannot be read: no onerror handler is set, nothing happens.
readerFails ==
  \E id \in readers :
    /\ readers' = readers \ {id}
    /\ UNCHANGED <<image, events, loading, error, inflight, uploads,
                   now, tz, out, clicks, files, uncaught>>
    /\ UNCHANGED otherVars

\* processImage resumes when its request settles: try, catch, finally.
processImage ==
  \E id \in inflight : \E resp \in Responses :
    /\ inflight' = inflight \ {id}
    /\ events' = Settled(resp).events
    /\ error' = Settled(resp).error
    /\ loading' = FALSE
    /\ UNCHANGED <<image, readers, uploads, now, tz, out, clicks, files, uncaught>>
    /\ UNCHANGED otherVars

\* downloadICS: a click on the button, which is rendered while events is not
\* empty.  An exception of generateICS leaves the handler: nothing after the
\* call runs.
downloadICS ==
  \E at \in {0} \cup 2..(2 * Len(events)) :
    /\ Len(events) > 0
    /\ clicks < MaxClicks
    /\ at > 0 => Elapsed(now) < MaxClock
    /\ clicks' = clicks + 1
    /\ out' = CallOf(at)
    /\ now' = IF at > 0 THEN Advance(now) ELSE now
    /\ files' = IF out'.res.ok THEN files + 1 ELSE files
    /\ uncaught' = IF out'.res.ok THEN uncaught ELSE uncaught + 1
    /\ UNCHANGED <<image, events, loading, error, readers, inflight, uploads, tz>>
    /\ UNCHANGED otherVars

Next ==
  \/ handleImageUpload
  \/ readerOnload
  \/ readerFails
  \/ processImage
  \/ downloadICS

Spec == Init /\ [][Next]_vars

(***************************************************************************)
(* Reading a document back, and the reference the claims compare with.     *)
(***************************************************************************)
LinesOf(doc) == SplitLines(doc)

CountIn(lines, line) == Cardinality({i \in 1..Len(lines) : lines[i] = line})

\* Position of the n-th line equal to line (0 when there are fewer).
NthIndex(lines, line, n) ==
  IF CountIn(lines, line) < n THEN 0
  ELSE CHOOSE i \in 1..Len(lines) :
         lines[i] = line /\ CountIn(SubSeq(lines, 1, i), line) = n

\* The lines between the n-th BEGIN:VEVENT line and the n-th END:VEVENT line.
BlockOf(lines, n) ==
  SubSeq(lines, NthIndex(lines, <<"BEGIN:VEVENT">>, n) + 1,
         NthIndex(lines, <<"END:VEVENT">>, n) - 1)

HasLine(block, name, value) ==
  \E k \in 1..Len(block) : block[k] = <<name>> \o value

\* An appended string as the value it carries: without name and line break.
AppendedValue(str) == SubSeq(str, 2, Len(str) - 1)

AppendsNamed(appends, name) ==
  {k \in 1..Len(appends) : appends[k][1] = name}

PresentNonEmpty(opt) == opt # None /\ opt[1] # <<>>

Returned == out.called /\ out.res.ok

BasicPattern ==
  <<"d", "d", "d", "d", "d", "d", "d", "d", "T", "d", "d", "d", "d", "d", "d", "Z">>

\* The day after and the day before a civil date.
NextDay(c) ==
  IF c.d < DaysInMonth(c.y, c.m) THEN [c EXCEPT !.d = c.d + 1]
  ELSE IF c.m < 12 THEN [c EXCEPT !.m = c.m + 1, !.d = 1]
  ELSE [c EXCEPT !.y = c.y + 1, !.m = 1, !.d = 1]

PrevDay(c) ==
  IF c.d > 1 THEN [c EXCEPT !.d = c.d - 1]
  ELSE IF c.m > 1 THEN [c EXCEPT !.m = c.m - 1, !.d = DaysInMonth(c.y, c.m - 1)]
  ELSE [c EXCEPT !.y = c.y - 1, !.m = 12, !.d = 31]

\* Local civil time c minus the zone offset, carrying into day, month, year.
UtcByCarry(c, offset) ==
  LET total == c.h * 60 + c.mi - offset
      day == IF total < 0 THEN PrevDay(c) ELSE IF total >= 1440 THEN NextDay(c) ELSE c
  IN [day EXCEPT !.h = (total % 1440) \div 60, !.mi = total % 60]

\* YYYYMMDDTHHMMSSZ
RenderBasic(c) ==
  Pad(c.y, 4) \o Pad(c.m, 2) \o Pad(c.d, 2) \o <<"T">>
    \o Pad(c.h, 2) \o Pad(c.mi, 2) \o Pad(c.s, 2) \o <<"Z">>

CaseOf(str) == CHOOSE c \in DateCases : c.str = str

IsCase(str) == \E c \in DateCases : c.str = str

(***************************************************************************)
(* Claims about the encoder, checked under SpecEnc.                        *)
(***************************************************************************)
\* C1: the document of a non-empty event list has exactly one BEGIN:VEVENT
\* line and one END:VEVENT line per event, and the i-th block carries the
\* title, start and end of the i-th event.
C1_OnePairPerEvent ==
  (Returned /\ out.events # <<>>) =>
    LET lines == LinesOf(out.res.v)
    IN /\ CountIn(lines, <<"BEGIN:VEVENT">>) = Len(out.events)
       /\ CountIn(lines, <<"END:VEVENT">>) = Len(out.events)
       /\ \A i \in 1..Len(out.events) :
            /\ HasLine(BlockOf(lines, i), "SUMMARY:", out.events[i].title)
            /\ HasLine(BlockOf(lines, i), "DTSTART:",
                       formatDateToICS(out.events[i].start, tz).v)
            /\ HasLine(BlockOf(lines, i), "DTEND:",
                       formatDateToICS(out.events[i].end, tz).v)

\* C2: generateICS on the empty list returns (does not throw) a document with
\* a BEGIN:VCALENDAR line, an END:VCALENDAR line and no VEVENT line.
C2_EmptyList ==
  (out.called /\ out.events = <<>>) =>
    /\ out.res.ok
    /\ CountIn(LinesOf(out.res.v), <<"BEGIN:VCALENDAR">>) = 1
    /\ CountIn(LinesOf(out.res.v), <<"END:VCALENDAR">>) = 1
    /\ CountIn(LinesOf(out.res.v), <<"BEGIN:VEVENT">>) = 0
    /\ CountIn(LinesOf(out.res.v), <<"END:VEVENT">>) = 0

C2_Witness == out.called /\ out.events = <<>> /\ out.res.ok

\* C3: the DTSTART and DTEND values of an event whose start and end are
\* date-time strings without offset are the local time minus the zone offset,
\* with carry, written YYYYMMDDTHHMMSSZ; in zone UTC 2025-03-10T09:00:00
\* gives 20250310T090000Z.
C3_LocalToUtc ==
  Returned =>
    \A i \in 1..Len(out.events) :
      /\ IsCase(out.events[i].start) =>
           AppendedValue(out.res.blocks[i][4])
             = RenderBasic(UtcByCarry(CaseOf(out.events[i].start), tz))
      /\ IsCase(out.events[i].end) =>
           AppendedValue(out.res.blocks[i][5])
             = RenderBasic(UtcByCarry(CaseOf(out.events[i].end), tz))
      /\ (tz = 0 /\ out.events[i].start = D_Mar10_0900) =>
           out.res.blocks[i][4]
             = <<"DTSTART:", "2", "0", "2", "5", "0", "3", "1", "0", "T",
                 "0", "9", "0", "0", "0", "0", "Z", NL>>

\* C4: every DTSTAMP, DTSTART and DTEND value of a returned document is
\* 8 digits, T, 6 digits, Z.
C4_BasicFormat ==
  Returned =>
    \A i \in 1..Len(out.events) : \A k \in {3, 4, 5} :
      Matches(AppendedValue(out.res.blocks[i][k]), BasicPattern)

\* C5: for each event a LOCATION: line is appended exactly when the location
\* is present and not empty, a DESCRIPTION: line exactly when the description
\* is, each carrying the field, whatever the other field is.
C5_OptionalFields ==
  Returned =>
    \A i \in 1..Len(out.events) :
      LET ev == out.events[i]
          app == out.res.blocks[i]
          loc == AppendsNamed(app, "LOCATION:")
          des == AppendsNamed(app, "DESCRIPTION:")
      IN /\ (loc # {}) <=> PresentNonEmpty(ev.location)
         /\ (des # {}) <=> PresentNonEmpty(ev.description)
         /\ \A k \in loc : app[k] = <<"LOCATION:">> \o ev.location[1] \o <<NL>>
         /\ \A k \in des : app[k] = <<"DESCRIPTION:">> \o ev.description[1] \o <<NL>>
         /\ Cardinality(loc) <= 1 /\ Cardinality(des) <= 1

\* A location without description, and a description without location.
C5_Witness ==
  /\ Returned
  /\ \E i \in 1..Len(out.events) :
       PresentNonEmpty(out.events[i].location)
         /\ ~PresentNonEmpty(out.events[i].description)
  /\ \E i \in 1..Len(out.events) :
       ~PresentNonEmpty(out.events[i].location)
         /\ out.events[i].location # None
         /\ PresentNonEmpty(out.events[i].description)

\* C8: the document is a function of the event list and of the time the run
\* starts at: it is the document of the run over the same list, started at
\* the same time, during which the clock stands still.
C8_Deterministic ==
  out.called =>
    out.res = generateICS(out.events, ClockReads(Len(out.events), out.start, 0), tz)

\* The generation-time token of a UID: the text between "UID:" and the "-".
UidToken(str) == SplitFirst(Tail(str), "-")

\* C9: all blocks of a document carry the same DTSTAMP and the same
\* generation-time token in their UID.
C9_SingleTimestamp ==
  Returned =>
    \A i, j \in 1..Len(out.events) :
      /\ out.res.blocks[i][3] = out.res.blocks[j][3]
      /\ UidToken(out.res.blocks[i][2]) = UidToken(out.res.blocks[j][2])

\* C10: no two blocks of a document are given the same UID.
C10_UidsDistinct ==
  Returned =>
    \A i, j \in 1..Len(out.events) :
      i # j => out.res.blocks[i][2] # out.res.blocks[j][2]

\* Two identical events encoded while the clock stands still; a later run
\* over the same list, now, gives other UIDs.
C10_Witness ==
  /\ Returned
  /\ Len(out.events) = 2
  /\ out.events[1] = out.events[2]
  /\ out.at = 0
  /\ generateICS(out.events, ClockReads(2, now, 0), tz).blocks[1][2]
       # out.res.blocks[1][2]

(***************************************************************************)
(* Claims about the component, checked under Spec.                         *)
(***************************************************************************)
Unparseable(str) == DateParse(str, tz).nan

HasUnparseable(evs) ==
  \E i \in 1..Len(evs) : Unparseable(evs[i].start) \/ Unparseable(evs[i].end)

EndsBeforeStart(ev) ==
  /\ ~Unparseable(ev.start) /\ ~Unparseable(ev.end)
  /\ \/ DateParse(ev.end, tz).day < DateParse(ev.start, tz).day
     \/ /\ DateParse(ev.end, tz).day = DateParse(ev.start, tz).day
        /\ DateParse(ev.end, tz).ms < DateParse(ev.start, tz).ms

Clicked == clicks' = clicks + 1

\* C6: a click on download with an unparseable start or end anywhere in the
\* list makes generateICS throw and delivers no file; with every start and
\* end parseable (an end before its start included) the document is returned
\* and one file is delivered.
C6_AllOrNothing ==
  [][Clicked =>
       /\ out'.called /\ out'.events = events
       /\ HasUnparseable(events) =>
            (~out'.res.ok /\ files' = files /\ uncaught' = uncaught + 1)
       /\ ~HasUnparseable(events) =>
            (out'.res.ok /\ files' = files + 1 /\ uncaught' = uncaught)]_vars

\* The only click so far found an unparseable start behind a parseable event.
C6_Witness ==
  /\ clicks = 1 /\ files = 0 /\ uncaught = 1
  /\ out.called /\ ~out.res.ok
  /\ Len(out.events) = 2
  /\ ~HasUnparseable(<<out.events[1]>>)
  /\ Unparseable(out.events[2].start)

\* C7: after a click on download that fails, the error state is not empty.
C7_FailureShown ==
  [][(Clicked /\ ~out'.res.ok) => error' # ""]_vars

(***************************************************************************)
(* Reading a document back event by event.                                 *)
(***************************************************************************)
BlankEvent == CalendarEvent(<<>>, <<>>, <<>>, None, None)

\* A minimal reader takes the five properties it knows from a line.
ReadLine(cur, line) ==
  IF Len(line) = 0 THEN cur
  ELSE IF line[1] = "SUMMARY:" THEN [cur EXCEPT !.title = Tail(line)]
  ELSE IF line[1] = "DTSTART:" THEN [cur EXCEPT !.start = Tail(line)]
  ELSE IF line[1] = "DTEND:" THEN [cur EXCEPT !.end = Tail(line)]
  ELSE IF line[1] = "LOCATION:" THEN [cur EXCEPT !.location = Some(Tail(line))]
  ELSE IF line[1] = "DESCRIPTION:"
  THEN [cur EXCEPT !.description = Some(Tail(line))]
  ELSE cur

RECURSIVE DecodeFrom(_, _, _, _)
DecodeFrom(lines, i, cur, acc) ==
  IF i > Len(lines) THEN acc
  ELSE IF lines[i] = <<"BEGIN:VEVENT">>
  THEN DecodeFrom(lines, i + 1, BlankEvent, acc)
  ELSE IF lines[i] = <<"END:VEVENT">>
  THEN DecodeFrom(lines, i + 1, BlankEvent, Append(acc, cur))
  ELSE DecodeFrom(lines, i + 1, ReadLine(cur, lines[i]), acc)

Decode(doc) == DecodeFrom(LinesOf(doc), 1, BlankEvent, <<>>)

\* An event as a reader can get it back: start and end in UTC basic format,
\* an empty optional field absent.
Normalized(ev) ==
  CalendarEvent(ev.title, formatDateToICS(ev.start, tz).v,
                formatDateToICS(ev.end, tz).v,
                IF Truthy(ev.location) THEN ev.location ELSE None,
                IF Truthy(ev.description) THEN ev.description ELSE None)

(***************************************************************************)
(* Further claims about the encoder, checked under SpecEnc.                *)
(***************************************************************************)
\* C11: reading the returned document back line by line gives as many events
\* as were encoded, each with the original title, location and description
\* and with start and end converted to UTC, whatever the fields contain.
C11_RoundTrip ==
  Returned =>
    Decode(out.res.v) = [i \in 1..Len(out.events) |-> Normalized(out.events[i])]

\* C12: every returned document starts with the lines BEGIN:VCALENDAR,
\* VERSION:2.0 and PRODID, its last line is END:VCALENDAR, and every
\* BEGIN:VEVENT and END:VEVENT line lies strictly between PRODID and the
\* last line.
C12_Framing ==
  Returned =>
    LET lines == LinesOf(out.res.v)
    IN /\ Len(lines) >= 4
       /\ lines[1] = <<"BEGIN:VCALENDAR">>
       /\ lines[2] = <<"VERSION:2.0">>
       /\ lines[3] = <<"PRODID:-//Calendar Photo Converter//EN">>
       /\ lines[Len(lines)] = <<"END:VCALENDAR">>
       /\ \A k \in 1..Len(lines) :
            lines[k] \in {<<"BEGIN:VEVENT">>, <<"END:VEVENT">>}
              => (3 < k /\ k < Len(lines))
       /\ CountIn(lines, <<"BEGIN:VEVENT">>) >= Len(out.events)
       /\ CountIn(lines, <<"END:VEVENT">>) >= Len(out.events)

\* Two events, one of which brings a BEGIN:VEVENT line of its own.
C12_Witness ==
  /\ Returned
  /\ Len(out.events) = 2
  /\ CountIn(LinesOf(out.res.v), <<"BEGIN:VEVENT">>) = 3

\* C13: the SUMMARY string appended for an event is SUMMARY: followed by the
\* title token for token and a line break; the values appended for LOCATION
\* and DESCRIPTION are the fields unchanged; a comma stays a bare comma.
C13_Verbatim ==
  Returned =>
    \A i \in 1..Len(out.events) :
      LET ev == out.events[i]
          app == out.res.blocks[i]
      IN /\ app[6] = <<"SUMMARY:">> \o ev.title \o <<NL>>
         /\ \A k \in AppendsNamed(app, "LOCATION:") :
              AppendedValue(app[k]) = ev.location[1]
         /\ \A k \in AppendsNamed(app, "DESCRIPTION:") :
              AppendedValue(app[k]) = ev.description[1]
         /\ \A k \in 1..Len(app) : \A n \in 1..Len(app[k]) : app[k][n] # "\\"

\* The title Lunch, then class was encoded.
C13_Witness ==
  /\ Returned
  /\ \E i \in 1..Len(out.events) :
       out.res.blocks[i][6] = <<"SUMMARY:", "Lunch", ",", " then class", NL>>

(***************************************************************************)
(* The photo-to-ICS component (PhotoToICSGenerator).                       *)
(***************************************************************************)
\* The JavaScript value undefined where a string is expected.
Undefined == "<undefined>"

JsTruthy(str) == str \notin {"", Undefined}

IcsA == "BEGIN:VCALENDAR\nBEGIN:VEVENT\nSUMMARY:A\nEND:VEVENT\nEND:VCALENDAR"

IcsB == "BEGIN:VCALENDAR\nBEGIN:VEVENT\nSUMMARY:B\nEND:VEVENT\nEND:VCALENDAR"

\* A settled fetch: rejected, or a response with its ok flag, whether its
\* body is JSON, the error.message of the body, and the content of the body.
PhotoResponse(kind, ok, json, message, hasContent, content) ==
  [kind |-> kind, ok |-> ok, json |-> json, message |-> message,
   hasContent |-> hasContent, content |-> content]

PhotoItem(text) == [type |-> IF text = Undefined THEN "tool_use" ELSE "text",
                    text |-> text]

PhotoResponses ==
  {PhotoResponse("reject", FALSE, FALSE, "", FALSE, <<>>),
   PhotoResponse("response", FALSE, FALSE, "", FALSE, <<>>),
   PhotoResponse("response", FALSE, TRUE, "", FALSE, <<>>),
   PhotoResponse("response", FALSE, TRUE, "Overloaded", FALSE, <<>>),
   PhotoResponse("response", TRUE, FALSE, "", FALSE, <<>>),
   PhotoResponse("response", TRUE, TRUE, "", FALSE, <<>>),
   PhotoResponse("response", TRUE, TRUE, "", TRUE, <<>>)}
  \cup {PhotoResponse("response", TRUE, TRUE, "", TRUE, <<PhotoItem(text)>>) :
          text \in {IcsA, IcsB, "", Undefined}}

\* The try block of reader.onload from the fetch on: data.content[0].text,
\* or the exception thrown on the way.
PhotoTry(resp) ==
  IF resp.kind = "reject" THEN Throw("Failed to fetch")
  ELSE IF ~resp.json THEN Throw("Unexpected token < in JSON at position 0")
  ELSE IF ~resp.ok
  THEN Throw(IF resp.message # "" THEN resp.message ELSE "API request failed")
  ELSE IF ~resp.hasContent
  THEN Throw("Cannot read properties of undefined (reading '0')")
  ELSE IF Len(resp.content) = 0
  THEN Throw("Cannot read properties of undefined (reading 'text')")
  ELSE Ok(resp.content[1].text)

ErrDrop == "Please drop an image file"

ErrSelect == "Please select an image file"

ErrNoKey ==
  "API key not configured. Please set REACT_APP_ANTHROPIC_API_KEY environment variable."

ErrRead == "Failed to read file"

MsgSuccess == "ICS generated successfully!"

\* The converter's own state while another component is mounted.
ConverterInitial ==
  /\ image = 0
  /\ events = <<>>
  /\ now = ClockStart
  /\ tz = 0
  /\ out = NoCall
  /\ uncaught = 0

InitPhoto ==
  /\ mounted = "photo"
  /\ PhotoInitial
  /\ apiKey \in BOOLEAN
  /\ loading = FALSE
  /\ error = ""
  /\ readers = {}
  /\ inflight = {}
  /\ uploads = 0
  /\ clicks = 0
  /\ files = 0
  /\ ConverterInitial
  /\ AppInitial /\ profile = EmptyProfile /\ storage = <<>>

\* handleDrag: dragenter, dragover or dragleave over the drop area.
handleDrag ==
  \E type \in {"dragenter", "dragover", "dragleave"} :
    /\ dragActive' = (type \in {"dragenter", "dragover"})
    /\ UNCHANGED <<file, success, icsData, gens, apiKey, loading, error,
                   readers, inflight, uploads, clicks, files>>
    /\ UNCHANGED <<converterVars, appVars, mounted>>

\* What handleDrop and handleFileChange do with the first file, if any.
TakeFile(kind, refusal) ==
  IF kind = "image"
  THEN /\ uploads < MaxUploads
       /\ file' = uploads + 1
       /\ uploads' = uploads + 1
       /\ error' = ""
  ELSE IF kind = "other"
  THEN /\ error' = refusal
       /\ UNCHANGED <<file, uploads>>
  ELSE UNCHANGED <<file, uploads, error>>

\* handleDrop: nothing, an image or another file is dropped.
handleDrop ==
  \E kind \in {"none", "image", "other"} :
    /\ dragActive' = FALSE
    /\ TakeFile(kind, ErrDrop)
    /\ UNCHANGED <<success, icsData, gens, apiKey, loading,
                   readers, inflight, clicks, files>>
    /\ UNCHANGED <<converterVars, appVars, mounted>>

\* handleFileChange: the file input changes.
handleFileChange ==
  \E kind \in {"none", "image", "other"} :
    /\ TakeFile(kind, ErrSelect)
    /\ UNCHANGED <<success, icsData, dragActive, gens, apiKey, loading,
                   readers, inflight, clicks, files>>
    /\ UNCHANGED <<converterVars, appVars, mounted>>

\* generateICS of Photo.jsx up to reader.readAsDataURL: a click on the
\* generate button, which is disabled while there is no file or loading is
\* true.
PhotoGenerateICS ==
  /\ file # 0
  /\ ~loading
  /\ gens < MaxGens
  /\ gens' = gens + 1
  /\ IF ~apiKey
     THEN /\ error' = ErrNoKey
          /\ UNCHANGED <<loading, success, readers>>
     ELSE /\ loading' = TRUE
          /\ error' = ""
          /\ success' = ""
          /\ readers' = readers \cup {gens + 1}
  /\ UNCHANGED <<file, icsData, dragActive, apiKey, inflight, uploads,
                 clicks, files>>
  /\ UNCHANGED <<converterVars, appVars, mounted>>

\* reader.onload of Photo.jsx up to its fetch.
PhotoReaderOnload ==
  \E id \in readers :
    /\ readers' = readers \ {id}
    /\ inflight' = inflight \cup {id}
    /\ UNCHANGED <<file, success, icsData, dragActive, gens, apiKey, loading,
                   error, uploads, clicks, files>>
    /\ UNCHANGED <<converterVars, appVars, mounted>>

\* reader.onerror of Photo.jsx.
PhotoReaderOnerror ==
  \E id \in readers :
    /\ readers' = readers \ {id}
    /\ error' = ErrRead
    /\ loading' = FALSE
    /\ UNCHANGED <<file, success, icsData, dragActive, gens, apiKey,
                   inflight, uploads, clicks, files>>
    /\ UNCHANGED <<converterVars, appVars, mounted>>

\* What the try and catch blocks of reader.onload leave in icsData, success
\* and error once the fetch has settled with resp.
PhotoSettled(resp) ==
  IF PhotoTry(resp).ok
  THEN [icsData |-> PhotoTry(resp).v, success |-> MsgSuccess, error |-> error]
  ELSE [icsData |-> icsData, success |-> success,
        error |-> "API Error: " \o PhotoTry(resp).v[1]]

\* reader.onload of Photo.jsx from the settled fetch on: try, catch, finally.
PhotoFetchSettles ==
  \E id \in inflight : \E resp \in PhotoResponses :
    /\ inflight' = inflight \ {id}
    /\ icsData' = PhotoSettled(resp).icsData
    /\ success' = PhotoSettled(resp).success
    /\ error' = PhotoSettled(resp).error
    /\ loading' = FALSE
    /\ UNCHANGED <<file, dragActive, gens, apiKey, readers, uploads,
                   clicks, files>>
    /\ UNCHANGED <<converterVars, appVars, mounted>>

\* downloadICS of Photo.jsx: the button is rendered while icsData is truthy.
PhotoDownloadICS ==
  /\ JsTruthy(icsData)
  /\ clicks < MaxClicks
  /\ clicks' = clicks + 1
  /\ files' = files + 1
  /\ UNCHANGED <<file, success, icsData, dragActive, gens, apiKey, loading,
                 error, readers, inflight, uploads>>
  /\ UNCHANGED <<converterVars, appVars, mounted>>

NextPhoto ==
  \/ handleDrag
  \/ handleDrop
  \/ handleFileChange
  \/ PhotoGenerateICS
  \/ PhotoReaderOnload
  \/ PhotoReaderOnerror
  \/ PhotoFetchSettles
  \/ PhotoDownloadICS

SpecPhoto == InitPhoto /\ [][NextPhoto]_vars

(***************************************************************************)
(* The course-recommendation component (App).                              *)
(***************************************************************************)
Fields ==
  {"major", "year", "gpa", "completedCourses", "careerGoals", "interests"}

\* What the user types into a field.
FieldValues == {"", "Computer Science"}

\* A profile saved by an earlier visit.
SavedProfile == [EmptyProfile EXCEPT !.major = "Biology", !.year = "Junior"]

\* JavaScript truthiness of a parsed JSON value: null is falsy, objects and
\* arrays are truthy.
JsonTruthy(j) == j.type # "null"

AppResponse(kind, json, hasContent, content) ==
  [kind |-> kind, json |-> json, hasContent |-> hasContent, content |-> content]

\* The texts the model can answer with: a JSON value alone, inside fences
\* with line breaks, after prose, prose alone, nothing.
AppTexts ==
  {<<JsonTok(j)>> : j \in {JsonObject, JsonNull, JsonArray(<<>>)}}
  \cup {<<Tok("fence-json"), Tok(NL), JsonTok(JsonObject), Tok(NL), Tok("fence")>>,
        <<Tok("prose"), Tok(" "), JsonTok(JsonObject)>>,
        <<Tok("prose")>>, <<>>}

AppResponses ==
  {AppResponse("reject", FALSE, FALSE, <<>>),
   AppResponse("response", FALSE, FALSE, <<>>),
   AppResponse("response", TRUE, FALSE, <<>>),
   AppResponse("response", TRUE, TRUE, <<>>),
   AppResponse("response", TRUE, TRUE, <<[type |-> "tool_use", text |-> <<>>]>>)}
  \cup {AppResponse("response", TRUE, TRUE, <<TextPart(text)>>) : text \in AppTexts}

\* data.content.find((c) => c.type === "text")?.text || ""
FirstText(content) ==
  IF \E i \in 1..Len(content) : content[i].type = "text"
  THEN content[CHOOSE i \in 1..Len(content) :
                 /\ content[i].type = "text"
                 /\ \A k \in 1..(i - 1) : content[k].type # "text"].text
  ELSE <<>>

\* .replace(/(fence)json\n?|(fence)\n?/g, ""): a fence goes, and with it a
\* line break that follows it directly.
AppStripFences(text) ==
  SelectSeq([i \in 1..Len(text) |->
               IF text[i].t \in {"fence-json", "fence"} THEN Tok("")
               ELSE IF i > 1 /\ text[i].t = NL
                         /\ text[i - 1].t \in {"fence-json", "fence"}
               THEN Tok("") ELSE text[i]],
            LAMBDA tok : tok.t # "")

\* The try block of handleProfileSubmit from the settled fetch on: the
\* parsed value, or the exception thrown on the way.
AppTry(resp) ==
  IF resp.kind = "reject" THEN Throw("Failed to fetch")
  ELSE IF ~resp.json THEN Throw("SyntaxError")
  ELSE IF ~resp.hasContent
  THEN Throw("Cannot read properties of undefined (reading 'find')")
  ELSE JSONparse(Trim(AppStripFences(FirstText(resp.content))))

\* No handler is running and nothing has been uploaded or downloaded.
NothingRunning ==
  /\ loading = FALSE
  /\ error = ""
  /\ readers = {}
  /\ inflight = {}
  /\ uploads = 0
  /\ clicks = 0
  /\ files = 0

\* App after its mount effect: loadProfile has read localStorage.
InitApp ==
  /\ mounted = "app"
  /\ AppInitial
  /\ storage \in {<<>>, <<SavedProfile>>}
  /\ profile = IF storage = <<>> THEN EmptyProfile ELSE storage[1]
  /\ NothingRunning
  /\ ConverterInitial
  /\ PhotoInitial /\ apiKey = TRUE

\* The Get Started button of the welcome step.
getStarted ==
  /\ step = "welcome"
  /\ step' = "profile"
  /\ UNCHANGED <<profile, recommendations, isAnalyzing, alerts, storage,
                 submits, edits>>
  /\ UNCHANGED <<converterVars, photoVars, mounted, loading, error, readers,
                 inflight, uploads, clicks, files>>

\* onChange of a field of the profile form: setProfile({...profile, f: v}).
setProfile ==
  \E f \in Fields : \E v \in FieldValues :
    /\ step = "profile"
    /\ edits < MaxEdits
    /\ edits' = edits + 1
    /\ profile' = [profile EXCEPT ![f] = v]
    /\ UNCHANGED <<step, recommendations, isAnalyzing, alerts, storage, submits>>
    /\ UNCHANGED <<converterVars, photoVars, mounted, loading, error, readers,
                   inflight, uploads, clicks, files>>

\* handleProfileSubmit up to its fetch: a click on Analyze Courses, which the
\* profile step renders.  localStorage.setItem may throw; that is caught.
handleProfileSubmit ==
  \E saved \in BOOLEAN :
    /\ step = "profile"
    /\ submits < MaxSubmits
    /\ submits' = submits + 1
    /\ storage' = IF saved THEN <<profile>> ELSE storage
    /\ step' = "loading"
    /\ isAnalyzing' = TRUE
    /\ inflight' = inflight \cup {submits + 1}
    /\ UNCHANGED <<profile, recommendations, alerts, edits>>
    /\ UNCHANGED <<converterVars, photoVars, mounted, loading, error, readers,
                   uploads, clicks, files>>

\* What the try and catch blocks of handleProfileSubmit leave in
\* recommendations and step, and the alerts shown so far, once the fetch has
\* settled with resp.
AppSettled(resp) ==
  IF AppTry(resp).ok
  THEN [recommendations |-> AppTry(resp).v, step |-> "results", alerts |-> alerts]
  ELSE [recommendations |-> recommendations, step |-> "profile",
        alerts |-> alerts + 1]

\* handleProfileSubmit from the settled fetch on: try, catch, finally.
profileSubmitSettles ==
  \E id \in inflight : \E resp \in AppResponses :
    /\ inflight' = inflight \ {id}
    /\ recommendations' = AppSettled(resp).recommendations
    /\ step' = AppSettled(resp).step
    /\ alerts' = AppSettled(resp).alerts
    /\ isAnalyzing' = FALSE
    /\ UNCHANGED <<profile, storage, submits, edits>>
    /\ UNCHANGED <<converterVars, photoVars, mounted, loading, error, readers,
                   uploads, clicks, files>>

\* The Adjust Profile button, which the results view renders; the view is
\* rendered when step is results and recommendations is truthy.
adjustProfile ==
  /\ step = "results"
  /\ JsonTruthy(recommendations)
  /\ step' = "profile"
  /\ UNCHANGED <<profile, recommendations, isAnalyzing, alerts, storage,
                 submits, edits>>
  /\ UNCHANGED <<converterVars, photoVars, mounted, loading, error, readers,
                 inflight, uploads, clicks, files>>

NextApp ==
  \/ getStarted
  \/ setProfile
  \/ handleProfileSubmit
  \/ profileSubmitSettles
  \/ adjustProfile

SpecApp == InitApp /\ [][NextApp]_vars

(***************************************************************************)
(* The page mounts one of the three components.                            *)
(***************************************************************************)
InitUI == Init \/ InitPhoto \/ InitApp

NextUI ==
  \/ mounted = "converter" /\ Next
  \/ mounted = "photo" /\ NextPhoto
  \/ mounted = "app" /\ NextApp

SpecUI == InitUI /\ [][NextUI]_vars

(***************************************************************************)
(* Claims about the requests of the three components.                      *)
(***************************************************************************)
\* C14: in whichever component is mounted, at most one request to the model
\* API is outstanding.
C14_OneOutstanding == Cardinality(inflight) <= 1

\* A response with which the model call has failed: the fetch rejects, the
\* body is an error or has no content, or the text is not valid JSON.
ConverterFailed(resp) ==
  \/ resp.kind = "reject"
  \/ Len(resp.content) = 0
  \/ ~JSONparse(Trim(StripFences(TextContent(resp.content)))).ok

\* Whichever failing response arrives in the state, the message is shown.
FailureShown ==
  /\ mounted = "converter" =>
       \A resp \in {r \in Responses : ConverterFailed(r)} :
         Settled(resp).error # ""
  /\ mounted = "photo" =>
       \A resp \in {r \in PhotoResponses : ~PhotoTry(r).ok} :
         PhotoSettled(resp).error # ""
  /\ mounted = "app" =>
       \A resp \in {r \in AppResponses : ~AppTry(r).ok} :
         /\ AppSettled(resp).alerts = alerts + 1
         /\ AppSettled(resp).step = "profile"

\* A request starts only from the file reader of an upload or a generate
\* click, or with a submit; a reader starts only with such a user action.
NoRetry ==
  /\ \A id \in inflight' \ inflight :
       \/ id \in readers /\ id \notin readers'
       \/ mounted = "app" /\ submits' = submits + 1 /\ id = submits'
  /\ \A id \in readers' \ readers :
       \/ mounted = "converter" /\ uploads' = uploads + 1 /\ id = uploads'
       \/ mounted = "photo" /\ gens' = gens + 1 /\ id = gens'

\* C15: every failure of the model call ends with a message to the user (a
\* non-empty error in the calendar components, an alert and the profile step
\* in the course component), and a request is only ever started by a user
\* action, never by a failure.
C15_FailureSurfaced == [](FailureShown) /\ [][NoRetry]_vars

\* The only request of the converter has failed and nothing else is running.
C15_Witness ==
  /\ mounted = "converter"
  /\ uploads = 1 /\ readers = {} /\ inflight = {}
  /\ error = ErrFailed
  /\ ~loading

\* C16: an event array inside json fences, and one after prose, gives the
\* events and error the bare array gives, and the events are that array.
C16_Stripped ==
  \A l \in WrappedLists :
    /\ Settled(Bare(l)).events = l
    /\ Settled(Fenced(l)) = Settled(Bare(l))
    /\ Settled(AfterProse(l)) = Settled(Bare(l))

\* C17: while a repeated generate action is running, no ICS text of an
\* earlier action is held (shown and downloadable).
C17_Discarded == (mounted = "photo" /\ loading) => ~JsTruthy(icsData)

\* C18: a request that settles after a later upload has started changes
\* neither events nor error.
C18_NoStaleResponse ==
  [][\A id \in inflight \ inflight' :
       id < uploads => (events' = events /\ error' = error)]_vars

\* C19: in the calendar components loading is true while a request is
\* outstanding.
C19_LoadingWhileOutstanding ==
  (mounted \in {"converter", "photo"} /\ inflight # {}) => loading

\* C20: in the course component, step results comes with recommendations
\* that are not null.
C20_ResultsNonNull ==
  (mounted = "app" /\ step = "results") => recommendations # JsonNull

\* C21: in the photo-to-ICS component the success message and the error
\* message are never both non-empty.
C21_SuccessOrError ==
  mounted = "photo" => ~(success # "" /\ error # "")

====
